---- MODULE Spec2Model ----
(***************************************************************************)
(* Model of the soak-test launcher                                         *)
(* (integration_test/soak_test/cmd/launcher/main.go).                      *)
(*                                                                         *)
(* One run of main(): main calls mainErr, which registers two deferred     *)
(* calls, parses TTL, creates the VM and then drives the VM through agent  *)
(* install, Python install, upload, launch and (on POSIX) a read-back of   *)
(* the debug log.  Every external call is two steps, issue and return, so  *)
(* that the 60 minute context deadline can fire while a call is in flight. *)
(*                                                                         *)
(* Strings that the code inspects or builds character by character (TTL,   *)
(* the "ttl" label) are sequences of one-character strings.  Durations are *)
(* counted in milliseconds instead of nanoseconds; the inputs contain no   *)
(* unit below a millisecond and no fraction, so nothing is lost.           *)
(***************************************************************************)
EXTENDS Integers, Sequences, FiniteSets, TLC

(* ------------------------------ bounds --------------------------------- *)

\* longest generated TTL string
MaxTTLLen == 3

\* characters of the generated TTL strings
TTLAlphabet == {"3", "0", "m", "s", "-"}

\* TTL strings checked in addition to the generated ones
TTLSamples ==
  { <<"1","0","0","m">>,
    <<"9","0","m","3","0","s">>,
    <<"2","4","h","3","0","m">>,
    <<"-","9","0","m","3","0","s">>,
    <<"+","5","m">>,
    <<"5","9","s">>,
    <<"1","h">>,
    <<"1","0","0">>,
    <<"5","x">> }

TTLInputs ==
  TTLSamples \cup UNION { [1..k -> TTLAlphabet] : k \in 0..MaxTTLLen }

\* values of DISTRO; "" is the unset variable
Platforms == {"", "debian-11", "windows-2019"}

\* values of LOG_RATE, LOG_SIZE_IN_BYTES and VM_NAME; "" is the unset variable
LogRates == {"", "1000"}
LogSizes == {"", "1000"}
VMNames == {"", "soak-vm"}

\* errors an external call can return
CallErrors == {"failed", "context deadline exceeded"}

(* --------------------------- time.ParseDuration ------------------------ *)

Digits == {"0","1","2","3","4","5","6","7","8","9"}

IsDigit(c) == c \in Digits

DigitVal(c) ==
  CASE c = "0" -> 0 [] c = "1" -> 1 [] c = "2" -> 2 [] c = "3" -> 3
    [] c = "4" -> 4 [] c = "5" -> 5 [] c = "6" -> 6 [] c = "7" -> 7
    [] c = "8" -> 8 [] c = "9" -> 9

\* milliseconds per unit
Millisecond == 1
Second == 1000
Minute == 60000
Hour == 3600000

unitNames == { <<"m","s">>, <<"s">>, <<"m">>, <<"h">> }

unitMap(u) ==
  CASE u = <<"m","s">> -> Millisecond
    [] u = <<"s">> -> Second
    [] u = <<"m">> -> Minute
    [] u = <<"h">> -> Hour

RECURSIVE leadingIntFrom(_, _)
leadingIntFrom(s, x) ==
  IF s # <<>> /\ IsDigit(Head(s))
  THEN leadingIntFrom(Tail(s), x * 10 + DigitVal(Head(s)))
  ELSE [x |-> x, rem |-> s]

leadingInt(s) == leadingIntFrom(s, 0)

\* length of the unit: the characters up to the next digit
RECURSIVE unitLen(_)
unitLen(s) ==
  IF s = <<>> \/ IsDigit(Head(s)) THEN 0 ELSE 1 + unitLen(Tail(s))

ParseFailed == [ok |-> FALSE, d |-> 0]

\* the loop of ParseDuration: ([0-9]+[a-z]+)+ summed into d
RECURSIVE parseTerms(_, _)
parseTerms(s, d) ==
  IF s = <<>> THEN [ok |-> TRUE, d |-> d]
  ELSE IF ~IsDigit(Head(s)) THEN ParseFailed
  ELSE LET li == leadingInt(s)
           n == unitLen(li.rem)
           u == SubSeq(li.rem, 1, n)
       IN IF n = 0 THEN ParseFailed
          ELSE IF u \notin unitNames THEN ParseFailed
          ELSE parseTerms(SubSeq(li.rem, n + 1, Len(li.rem)),
                          d + li.x * unitMap(u))

ParseDuration(s) ==
  LET signed == s # <<>> /\ Head(s) \in {"-", "+"}
      neg == signed /\ Head(s) = "-"
      body == IF signed THEN Tail(s) ELSE s
  IN IF body = <<"0">> THEN [ok |-> TRUE, d |-> 0]
     ELSE IF body = <<>> THEN ParseFailed
     ELSE LET r == parseTerms(body, 0)
          IN IF ~r.ok THEN ParseFailed
             ELSE [ok |-> TRUE, d |-> IF neg THEN 0 - r.d ELSE r.d]

(* ------------------- strconv.Itoa(int(parsedTTL / time.Minute)) -------- *)

\* Go's integer division truncates toward zero
GoDiv(a, b) == IF a >= 0 THEN a \div b ELSE 0 - ((0 - a) \div b)

DigitChar(n) ==
  CASE n = 0 -> "0" [] n = 1 -> "1" [] n = 2 -> "2" [] n = 3 -> "3"
    [] n = 4 -> "4" [] n = 5 -> "5" [] n = 6 -> "6" [] n = 7 -> "7"
    [] n = 8 -> "8" [] n = 9 -> "9"

RECURSIVE ItoaNat(_)
ItoaNat(n) ==
  IF n < 10 THEN <<DigitChar(n)>>
  ELSE Append(ItoaNat(n \div 10), DigitChar(n % 10))

Itoa(n) == IF n < 0 THEN <<"-">> \o ItoaNat(0 - n) ELSE ItoaNat(n)

TTLLabel(d) == Itoa(GoDiv(d, Minute))

(* ------------------------- platform classification --------------------- *)

\* gce.IsWindows
IsWindows(platform) == platform \in {"windows-2019"}

(* --------------------------- rendered texts ---------------------------- *)

\* A text is a sequence of pieces; fmt.Sprintf joins the pieces of its
\* template with the values of its arguments, unchanged.  A double quote
\* inside a value is a piece of its own.

\* the value of an environment variable as text; unset is the empty text
Text(s) == IF s = "" THEN <<>> ELSE <<s>>

\* line 70, line 71, line 121
logPath == <<"/tmp/tail_file">>
logGeneratorPath == <<"/log_generator.py">>
debugLogPath == <<"/tmp/log_generator.log">>

\* pieces of the agent configuration template (lines 125-145)
ConfigHead ==
  "logging:\n  receivers:\n    mylog_source:\n      type: files\n      include_paths:\n      - "
ConfigMid ==
  "\n    generator_debug_logs:\n      type: files\n      include_paths:\n      - "
ConfigTail ==
  "\n  exporters:\n    google:\n      type: google_cloud_logging\n  service:\n    pipelines:\n      my_pipeline:\n        receivers:\n        - mylog_source\n        - generator_debug_logs\n        exporters: [google]\n"

\* lines 125-145: the Ops Agent configuration
Config(lp, dp) == <<ConfigHead>> \o lp \o <<ConfigMid>> \o dp \o <<ConfigTail>>

\* lines 154-166: the PowerShell script that installs Python
installPython == <<"$tempDir = \"/tmp\" ... Start-Process \"$tempDir\\$pythonInstallerName\" -Wait -ArgumentList \"/quiet TargetDir=$pythonInstallDir InstallAllUsers=1\"\n">>

\* line 185: the Windows launch command
StartLogGeneratorWindows(gp, size, rate, lp) ==
  <<"Invoke-WmiMethod -ComputerName . -Class Win32_Process -Name Create -ArgumentList \"$env:SystemDrive\\Python\\python.exe ">>
  \o gp \o <<" ", "--log-size-in-bytes=">> \o size
  \o <<" ", "--log-rate=">> \o rate
  \o <<" --log-write-type=file ", "--file-path=">> \o lp \o <<"\"">>

\* lines 187-193: the POSIX launch command
StartLogGeneratorPosix_redirectToLog(gp, size, rate, lp, dp) ==
  <<"nohup python3 ">> \o gp
  \o <<" \\\n  ", "--log-size-in-bytes=\"">> \o size \o <<"\"">>
  \o <<" \\\n  ", "--log-rate=\"">> \o rate \o <<"\"">>
  \o <<" \\\n  --log-write-type=file \\\n  ", "--file-path=\"">> \o lp
  \o <<"\"", " \\\n  ", "&> ">> \o lp \o <<" &", "\n">>

StartLogGeneratorPosix(gp, size, rate, lp, dp) ==
  <<"nohup python3 ">> \o gp
  \o <<" \\\n  ", "--log-size-in-bytes=\"">> \o size \o <<"\"">>
  \o <<" \\\n  ", "--log-rate=\"">> \o rate \o <<"\"">>
  \o <<" \\\n  --log-write-type=file \\\n  ", "--file-path=\"">> \o lp
  \o <<"\"", " \\\n  ", "&> ">> \o dp \o <<" &", "\n">>

\* lines 181-194: the launch command for the platform
StartLogGenerator_alwaysPosix(windows, gp, size, rate, lp, dp) ==
  StartLogGeneratorPosix(gp, size, rate, lp, dp)

StartLogGenerator(windows, gp, size, rate, lp, dp) ==
  IF windows THEN StartLogGeneratorWindows(gp, size, rate, lp)
  ELSE StartLogGeneratorPosix(gp, size, rate, lp, dp)

\* line 204: "cat " + debugLogPath
CatDebugLog_primaryLog(dp) == <<"cat ">> \o logPath

CatDebugLog(dp) == <<"cat ">> \o dp

(* ------------------------------ state ---------------------------------- *)

VARIABLES
  ttl, distro, vmName, logRate, logSizeInBytes,  \* package variables (env)
  pc,            \* position in main / mainErr
  parsedTTL,     \* result of time.ParseDuration, milliseconds
  vm,            \* the *gce.VM returned by CreateInstance, or NoVM
  err,           \* value mainErr returns: Nil or an error
  retLine,       \* source line of the return statement mainErr executed
  callErr,       \* the error returned by the failing external call
  calls,         \* external calls issued so far, in order, with outcome
  inflight,      \* TRUE while the last call issued has not returned
  state,         \* state of the run controller
  reached,       \* controller states entered so far, in order
  defers,        \* stack of deferred calls of mainErr
  cleanupCount,  \* number of times gce.CleanupKeysOrDie has run
  cancelCount,   \* number of times cancel() has run
  ctx,           \* "none", "active", "expired" or "cancelled"
  firedAt,       \* what the run was doing when the deadline fired
  exitCode,      \* exit status of the process, -1 while it runs
  exitMsg,       \* error passed to log.Fatal, Nil if none
  slept,         \* number of times time.Sleep has been called
  rIn,           \* parameters handed to a rendering on its own
  rOut           \* what that rendering returned

envVars == <<ttl, distro, vmName, logRate, logSizeInBytes>>

vars == <<ttl, distro, vmName, logRate, logSizeInBytes, pc, parsedTTL, vm,
          err, retLine, callErr, calls, inflight, state, reached, defers,
          cleanupCount, cancelCount, ctx, firedAt, exitCode, exitMsg,
          slept, rIn, rOut>>

renderVars == <<rIn, rOut>>

runVars == <<pc, parsedTTL, vm, err, retLine, callErr, calls, inflight, state,
             reached, defers, cleanupCount, cancelCount, ctx, firedAt,
             exitCode, exitMsg, slept>>

Nil == [prefix |-> "", cause |-> "nil"]
NoVM == [Platform |-> "", created |-> FALSE]
NoCallErr == [op |-> "none", e |-> "nil"]
NotFired == [fired |-> FALSE, inflight |-> FALSE, ncalls |-> 0]
NoRender == [windows |-> FALSE, gp |-> <<>>, lp |-> <<>>, dp |-> <<>>,
             size |-> <<>>, rate |-> <<>>]
NoRendered == [stage |-> "none", err |-> "nil", text |-> <<>>]

\* stages of the run in program order
StageOrder == <<"Created", "Provisioned", "AgentInstalled", "InterpreterReady",
                "ContentUploaded", "WorkloadLaunched", "Verified">>

\* positions of mainErr at which an external call is made
CallSites == {"L117", "L146", "L153", "L176", "L182", "L204"}

\* the call made at a call site: function, stage, source line, the text
\* handed over (configuration, script or package) and the remote path
CallAt(site, windows) ==
  CASE site = "L117" ->
         [fn |-> "gce.CreateInstance", op |-> "provision", line |-> 117,
          script |-> <<>>, path |-> <<>>]
    [] site = "L146" ->
         [fn |-> "agents.SetupOpsAgent", op |-> "agent install", line |-> 146,
          script |-> Config(logPath, debugLogPath), path |-> <<>>]
    [] site = "L153" ->
         IF windows
         THEN [fn |-> "gce.RunRemotely", op |-> "interpreter install",
               line |-> 167, script |-> installPython, path |-> <<>>]
         ELSE [fn |-> "agents.InstallPackages", op |-> "interpreter install",
               line |-> 171, script |-> <<"python3">>, path |-> <<>>]
    [] site = "L176" ->
         [fn |-> "gce.UploadContent", op |-> "upload", line |-> 176,
          script |-> <<"logGeneratorSource">>, path |-> logGeneratorPath]
    [] site = "L182" ->
         [fn |-> "gce.RunRemotely", op |-> "launch", line |-> 195,
          script |-> StartLogGenerator(windows, logGeneratorPath,
                                       Text(logSizeInBytes), Text(logRate),
                                       logPath, debugLogPath),
          path |-> <<>>]
    [] site = "L204" ->
         [fn |-> "gce.RunRemotely", op |-> "verification", line |-> 204,
          script |-> CatDebugLog(debugLogPath), path |-> <<>>]

\* controller state entered when the call of a site succeeds
StageAfter(site) ==
  CASE site = "L117" -> "Provisioned"
    [] site = "L146" -> "AgentInstalled"
    [] site = "L153" -> "InterpreterReady"
    [] site = "L176" -> "ContentUploaded"
    [] site = "L182" -> "WorkloadLaunched"
    [] site = "L204" -> "Verified"

\* statement reached when the call of a site succeeds
AfterOk_skipUpload(site) ==
  CASE site = "L117" -> "L146"
    [] site = "L146" -> "L153"
    [] site = "L153" -> "L182"
    [] site = "L176" -> "L182"
    [] site = "L182" -> "L201"
    [] site = "L204" -> "L208"

AfterOk(site) ==
  CASE site = "L117" -> "L146"
    [] site = "L146" -> "L153"
    [] site = "L153" -> "L176"
    [] site = "L176" -> "L182"
    [] site = "L182" -> "L201"
    [] site = "L204" -> "L208"

\* every call site tests the error it gets: if err != nil { return ... }
Checked_notUpload(site) == site # "L176"

Checked_notPython(site) == site # "L153"

Checked_notVerification(site) == site # "L204"

Checked_notProvision(site) == site # "L117"

Checked(site) == TRUE

\* the error a call site returns for the error e of its call
WrapErr_bare(c, e) == [prefix |-> "", cause |-> "unknown"]

WrapErr(c, e) ==
  IF c.line = 167
  THEN [prefix |-> "Could not install Python", cause |-> e]
  ELSE [prefix |-> "", cause |-> e]

\* the line of the return statement that follows a failed call
ErrReturnLine(c) ==
  CASE c.line = 117 -> 119
    [] c.line = 146 -> 147
    [] c.line = 167 -> 168
    [] c.line = 171 -> 172
    [] c.line = 176 -> 177
    [] c.line = 195 -> 196
    [] c.line = 204 -> 205

\* outcomes of an external call: once the context has expired the call is
\* abandoned and reports the deadline
CallOutcomes(c) ==
  IF c = "expired" THEN {"context deadline exceeded"}
  ELSE {"ok", "failed"}

\* standard output a call can hand back; only the read-back of line 204
\* prints a file, which may be empty
Outputs(site, r) ==
  IF site = "L204" /\ r = "ok" THEN {"", "debug log text"} ELSE {""}

\* deferred calls registered at the top of mainErr, last registered on top
DeferredCalls_cleanupFirst == <<"gce.CleanupKeysOrDie", "cancel">>

DeferredCalls == <<"cancel", "gce.CleanupKeysOrDie">>

\* where a return statement of mainErr goes: the deferred calls run first
ReturnTo_fatalOnError(e) == IF e = Nil THEN "defer" ELSE "L82"

ReturnTo_retry(e) == IF e = Nil THEN "defer" ELSE "L117"

ReturnTo(e) == "defer"

\* exit status of main for the error mainErr returned
ExitStatus_zero(e) == 0

ExitStatus(e) == IF e # Nil THEN 1 ELSE 0

(* ------------------------------ Init ----------------------------------- *)

\* the process before main runs
RunInit ==
  /\ pc = "main"
  /\ parsedTTL = 0
  /\ vm = NoVM
  /\ err = Nil
  /\ retLine = 0
  /\ callErr = NoCallErr
  /\ calls = <<>>
  /\ inflight = FALSE
  /\ state = "Created"
  /\ reached = <<"Created">>
  /\ defers = <<>>
  /\ cleanupCount = 0
  /\ cancelCount = 0
  /\ ctx = "none"
  /\ firedAt = NotFired
  /\ exitCode = -1
  /\ exitMsg = Nil
  /\ slept = 0

Init ==
  /\ ttl \in TTLInputs
  /\ distro \in Platforms
  /\ vmName \in VMNames
  /\ logRate \in LogRates
  /\ logSizeInBytes \in LogSizes
  /\ RunInit
  /\ rIn = NoRender
  /\ rOut = NoRendered

(* ------------------------------ actions -------------------------------- *)

\* main calls mainErr; lines 88-94: defers registered, context created
Begin ==
  /\ pc = "main"
  /\ pc' = "L96"
  /\ defers' = DeferredCalls
  /\ ctx' = "active"
  /\ UNCHANGED <<envVars, renderVars, slept,
                 parsedTTL, vm, err, retLine, callErr, calls,
                 inflight, state, reached, cleanupCount, cancelCount,
                 firedAt, exitCode, exitMsg>>

\* lines 96-116: parse TTL, build the VM options
ParseTTL ==
  /\ pc = "L96"
  /\ LET r == ParseDuration(ttl)
     IN IF ~r.ok
        THEN LET e == [prefix |-> "Could not parse TTL duration",
                        cause |-> "time: invalid duration"]
             IN /\ err' = e
                /\ retLine' = 98
                /\ state' = "Failed"
                /\ pc' = ReturnTo(e)
                /\ UNCHANGED parsedTTL
        ELSE /\ parsedTTL' = r.d
             /\ pc' = "L117"
             /\ UNCHANGED <<err, retLine, state>>
  /\ UNCHANGED <<envVars, renderVars, slept,
                 vm, callErr, calls, inflight, reached, defers,
                 cleanupCount, cancelCount, ctx, firedAt, exitCode, exitMsg>>

\* the options handed to gce.CreateInstance (lines 102-116)
VMOptions ==
  [Platform |-> distro, Name |-> vmName, MachineType |-> "e2-standard-16",
   ttlLabel |-> TTLLabel(parsedTTL)]

\* a call site issues its external call
IssueCall ==
  /\ pc \in CallSites
  /\ ~inflight
  /\ LET c == CallAt(pc, IsWindows(vm.Platform))
     IN calls' = Append(calls,
                   [fn |-> c.fn, op |-> c.op, line |-> c.line,
                    script |-> c.script, path |-> c.path,
                    result |-> "pending", output |-> "",
                    options |-> IF pc = "L117" THEN VMOptions
                                ELSE [Platform |-> vm.Platform,
                                      Name |-> "", MachineType |-> "",
                                      ttlLabel |-> <<>>],
                    ctx |-> ctx])
  /\ inflight' = TRUE
  /\ UNCHANGED <<envVars, renderVars, slept,
                 pc, parsedTTL, vm, err, retLine, callErr, state,
                 reached, defers, cleanupCount, cancelCount, ctx, firedAt,
                 exitCode, exitMsg>>

\* the external call returns; the call site tests its error
ReturnCall ==
  /\ pc \in CallSites
  /\ inflight
  /\ inflight' = FALSE
  /\ LET n == Len(calls)
         c == calls[n]
     IN \E r \in CallOutcomes(ctx) : \E out \in Outputs(pc, r) :
          /\ calls' = [calls EXCEPT ![n].result = r, ![n].output = out]
          /\ IF r # "ok" /\ Checked(pc)
             THEN LET e == WrapErr(c, r)
                  IN /\ err' = e
                     /\ retLine' = ErrReturnLine(c)
                     /\ callErr' = [op |-> c.op, e |-> r]
                     /\ state' = "Failed"
                     /\ pc' = ReturnTo(e)
                     /\ UNCHANGED <<vm, reached>>
             ELSE /\ pc' = AfterOk(pc)
                  /\ state' = StageAfter(pc)
                  /\ reached' = Append(reached, StageAfter(pc))
                  /\ vm' = IF pc = "L117" /\ r = "ok"
                           THEN [Platform |-> c.options.Platform,
                                 created |-> TRUE]
                           ELSE vm
                  /\ UNCHANGED <<err, retLine, callErr>>
  /\ UNCHANGED <<envVars, renderVars, slept,
                 parsedTTL, defers, cleanupCount, cancelCount, ctx,
                 firedAt, exitCode, exitMsg>>

\* lines 201-202: on POSIX sleep five seconds, then go on to read the log
Sleep_unbounded ==
  /\ pc = "L201"
  /\ ~IsWindows(vm.Platform)
  /\ UNCHANGED vars

Sleep ==
  /\ pc = "L201"
  /\ ~IsWindows(vm.Platform)
  /\ pc' = "L204"
  /\ slept' = slept + 1
  /\ UNCHANGED <<envVars, renderVars, parsedTTL, vm, err, retLine, callErr, calls,
                 inflight, state, reached, defers, cleanupCount, cancelCount,
                 ctx, firedAt, exitCode, exitMsg>>

\* lines 201, 208: on Windows the read-back is skipped
SkipVerification_anyPlatform ==
  /\ pc = "L201"
  /\ pc' = "L208"
  /\ state' = "Verified"
  /\ reached' = Append(reached, "Verified")
  /\ UNCHANGED <<envVars, renderVars, slept,
                 parsedTTL, vm, err, retLine, callErr, calls,
                 inflight, defers, cleanupCount, cancelCount, ctx, firedAt,
                 exitCode, exitMsg>>

SkipVerification ==
  /\ pc = "L201"
  /\ IsWindows(vm.Platform)
  /\ pc' = "L208"
  /\ state' = "Verified"
  /\ reached' = Append(reached, "Verified")
  /\ UNCHANGED <<envVars, renderVars, slept,
                 parsedTTL, vm, err, retLine, callErr, calls,
                 inflight, defers, cleanupCount, cancelCount, ctx, firedAt,
                 exitCode, exitMsg>>

\* line 208: return nil
ReturnNil ==
  /\ pc = "L208"
  /\ err' = Nil
  /\ retLine' = 208
  /\ pc' = ReturnTo(Nil)
  /\ UNCHANGED <<envVars, renderVars, slept,
                 parsedTTL, vm, callErr, calls, inflight, state,
                 reached, defers, cleanupCount, cancelCount, ctx, firedAt,
                 exitCode, exitMsg>>

\* a deferred call runs: cancel() first, gce.CleanupKeysOrDie() last
RunDeferred ==
  /\ pc = "defer"
  /\ defers # <<>>
  /\ LET f == Head(defers)
     IN /\ cancelCount' = IF f = "cancel" THEN cancelCount + 1
                          ELSE cancelCount
        /\ ctx' = IF f = "cancel" /\ ctx = "active" THEN "cancelled" ELSE ctx
        /\ cleanupCount' = IF f = "gce.CleanupKeysOrDie"
                           THEN cleanupCount + 1 ELSE cleanupCount
  /\ defers' = Tail(defers)
  /\ pc' = IF Tail(defers) = <<>> THEN "L82" ELSE "defer"
  /\ UNCHANGED <<envVars, renderVars, slept,
                 parsedTTL, vm, err, retLine, callErr, calls,
                 inflight, state, reached, firedAt, exitCode, exitMsg>>

\* lines 82-85: main ends the process, log.Fatal(err) on error
MainExit ==
  /\ pc = "L82"
  /\ exitCode' = ExitStatus(err)
  /\ exitMsg' = err
  /\ pc' = "exited"
  /\ UNCHANGED <<envVars, renderVars, slept,
                 parsedTTL, vm, err, retLine, callErr, calls,
                 inflight, state, reached, defers, cleanupCount, cancelCount,
                 ctx, firedAt>>

\* line 90: the 60 minute deadline of the context elapses
DeadlineFires ==
  /\ ctx = "active"
  /\ ctx' = "expired"
  /\ firedAt' = [fired |-> TRUE, inflight |-> inflight, ncalls |-> Len(calls)]
  /\ UNCHANGED <<envVars, renderVars, slept,
                 pc, parsedTTL, vm, err, retLine, callErr, calls,
                 inflight, state, reached, defers, cleanupCount, cancelCount,
                 exitCode, exitMsg>>

Next ==
  \/ Begin
  \/ ParseTTL
  \/ IssueCall
  \/ ReturnCall
  \/ Sleep
  \/ SkipVerification
  \/ ReturnNil
  \/ RunDeferred
  \/ MainExit
  \/ DeadlineFires

Spec == Init /\ [][Next]_vars

\* the steps of the process itself; the deadline is the only other step
Run ==
  \/ Begin
  \/ ParseTTL
  \/ IssueCall
  \/ ReturnCall
  \/ Sleep
  \/ SkipVerification
  \/ ReturnNil
  \/ RunDeferred
  \/ MainExit

\* the process keeps running and every external call comes back; the
\* deadline may or may not fire
FairSpec == Spec /\ WF_vars(Run)

TypeOK ==
  /\ pc \in {"main", "L96", "L201", "L208", "defer", "L82", "exited"}
            \cup CallSites
  /\ ctx \in {"none", "active", "expired", "cancelled"}
  /\ exitCode \in {-1, 0, 1}
  /\ cleanupCount \in 0..1
  /\ inflight \in BOOLEAN
  /\ callErr.e \in CallErrors \cup {"nil"}
  /\ \A i \in 1..Len(calls) :
       calls[i].result \in CallErrors \cup {"ok", "pending"}

(* ------------------- the renderings taken on their own ----------------- *)

\* paths handed to the renderings: the three of the program and one that
\* holds a double quote
RenderPaths ==
  { logPath, logGeneratorPath, debugLogPath, <<"/tmp/a", "\"", "b">> }

RenderInputs ==
  [windows : BOOLEAN, gp : RenderPaths, lp : RenderPaths, dp : RenderPaths,
   size : {<<"1000">>}, rate : {<<>>, <<"1000">>}]

RenderInit ==
  /\ ttl = <<>>
  /\ distro = ""
  /\ vmName = ""
  /\ logRate = ""
  /\ logSizeInBytes = ""
  /\ RunInit
  /\ rIn \in RenderInputs
  /\ rOut = NoRendered

\* lines 125-145 applied to rIn
RenderConfig ==
  /\ rOut = NoRendered
  /\ rOut' = [stage |-> "install-agent-config", err |-> "nil",
              text |-> Config(rIn.lp, rIn.dp)]
  /\ UNCHANGED <<envVars, runVars, rIn>>

\* lines 181-194 applied to rIn
RenderStartWorkload ==
  /\ rOut = NoRendered
  /\ rOut' = [stage |-> "start-workload", err |-> "nil",
              text |-> StartLogGenerator(rIn.windows, rIn.gp, rIn.size,
                                         rIn.rate, rIn.lp, rIn.dp)]
  /\ UNCHANGED <<envVars, runVars, rIn>>

\* line 204 applied to rIn
RenderVerification ==
  /\ rOut = NoRendered
  /\ rOut' = [stage |-> "verification", err |-> "nil",
              text |-> CatDebugLog(rIn.dp)]
  /\ UNCHANGED <<envVars, runVars, rIn>>

RenderNext ==
  \/ RenderConfig
  \/ RenderStartWorkload
  \/ RenderVerification

RenderSpec == RenderInit /\ [][RenderNext]_vars

(* ------------------------------ properties ----------------------------- *)

Returned == pc \in {"L82", "exited"}

OpsOf(cs) == [i \in 1..Len(cs) |-> cs[i].op]

PosixOps == <<"provision", "agent install", "interpreter install", "upload",
              "launch", "verification">>

WindowsOps == SubSeq(PosixOps, 1, 5)

\* C1: the controller states are entered in the fixed order Created,
\* Provisioned, AgentInstalled, InterpreterReady, ContentUploaded,
\* WorkloadLaunched, Verified: the states entered so far are always an
\* initial part of that order, so no state is entered before its predecessor.
C1_StageOrder ==
  /\ Len(reached) <= Len(StageOrder)
  /\ reached = SubSeq(StageOrder, 1, Len(reached))

C1_Witness ==
  /\ reached = StageOrder
  /\ ~IsWindows(vm.Platform)
  /\ pc = "exited"

\* C2: key cleanup never runs twice, and once mainErr has returned, by
\* whatever return statement, it has run exactly once.
C2_CleanupOnce ==
  /\ cleanupCount <= 1
  /\ Returned => cleanupCount = 1

C2_Witness ==
  /\ pc = "exited"
  /\ retLine = 98
  /\ cleanupCount = 1

\* C3: a call that returned an error is the last call of the run: the
\* controller is Failed as soon as the error is returned and no later call
\* is issued.
C3_ErrorSkipsLaterStages ==
  \A i \in 1..Len(calls) :
    calls[i].result \notin {"ok", "pending"} =>
      /\ i = Len(calls)
      /\ ~inflight
      /\ state = "Failed"
      /\ pc \in {"defer", "L82", "exited"}

C3_Witness ==
  /\ pc = "exited"
  /\ Len(calls) = 4
  /\ calls[4].op = "upload"
  /\ calls[4].result = "failed"

\* C4: when provisioning returns an error the controller is Failed straight
\* from Created at the provisioning stage (the return of line 119), the
\* error returned is the provisioning error, CreateInstance is the only call
\* of the run, and by the time the process exits cleanup has run and the
\* exit status is non-zero.
C4_ProvisionFailure ==
  callErr.op = "provision" =>
    /\ state = "Failed"
    /\ reached = <<"Created">>
    /\ retLine = 119
    /\ err.cause = callErr.e
    /\ Len(calls) = 1
    /\ calls[1].fn = "gce.CreateInstance"
    /\ Returned => cleanupCount = 1
    /\ pc = "exited" => exitCode # 0 /\ exitMsg.cause = callErr.e

C4_Witness ==
  /\ callErr = [op |-> "provision", e |-> "failed"]
  /\ pc = "exited"
  /\ exitCode = 1

\* C5: exit status 0 is reported only when mainErr returned nil at line 208
\* after every call of the run succeeded: on POSIX provision, agent install,
\* interpreter install, upload, launch and the read-back of the debug log,
\* on Windows the same without the read-back.
C5_SuccessOnlyAfterVerification ==
  exitCode = 0 =>
    /\ err = Nil
    /\ retLine = 208
    /\ state = "Verified"
    /\ \A i \in 1..Len(calls) : calls[i].result = "ok"
    /\ OpsOf(calls) = IF IsWindows(vm.Platform) THEN WindowsOps ELSE PosixOps

C5_Witness ==
  /\ exitCode = 0
  /\ IsWindows(vm.Platform)
  /\ Len(calls) = 5

\* C6: if the deadline fires while a call is in flight, no further call is
\* issued after it, the controller is Failed with the deadline as cause as
\* soon as that call returns, and the process exits non-zero.
C6_DeadlineInFlight ==
  (firedAt.fired /\ firedAt.inflight) =>
    /\ Len(calls) = firedAt.ncalls
    /\ ~inflight => /\ state = "Failed"
                    /\ err.cause = "context deadline exceeded"
    /\ pc = "exited" => /\ exitCode = 1
                        /\ exitMsg.cause = "context deadline exceeded"

C6_Witness ==
  /\ firedAt.fired
  /\ firedAt.inflight
  /\ firedAt.ncalls = 3
  /\ calls[3].op = "interpreter install"
  /\ pc = "exited"

\* C7: with a malformed TTL or with TTL, LOG_RATE, LOG_SIZE_IN_BYTES or
\* DISTRO unset, no provisioning request and no remote call is issued and
\* the run fails.
C7_MissingParamStopsRun ==
  (\/ ~ParseDuration(ttl).ok
   \/ logRate = ""
   \/ logSizeInBytes = ""
   \/ distro = "") =>
    /\ calls = <<>>
    /\ pc = "exited" => exitCode # 0

\* C8: with a TTL that parses to zero or less, or an empty platform
\* identifier, no provisioning request is issued and the run fails.
C8_ProvisionOnlyValidInputs ==
  (\/ ParseDuration(ttl).ok /\ ParseDuration(ttl).d <= 0
   \/ distro = "") =>
    /\ calls = <<>>
    /\ pc = "exited" => exitCode # 0

\* value of a decimal numeral with an optional minus sign
DecValue(s) ==
  IF s # <<>> /\ Head(s) = "-"
  THEN 0 - leadingInt(Tail(s)).x
  ELSE leadingInt(s).x

\* C9: the ttl label of the provisioning request is the parsed TTL in whole
\* minutes rounded down: label minutes <= TTL < label + 1 minutes.
C9_LabelIsFloorMinutes ==
  \A i \in 1..Len(calls) :
    calls[i].fn = "gce.CreateInstance" =>
      LET label == DecValue(calls[i].options.ttlLabel)
      IN /\ label * Minute <= parsedTTL
         /\ parsedTTL < (label + 1) * Minute

\* C10: a run that ends in the failure of a stage's call exits non-zero
\* with a message that carries a tag naming that stage.
C10_FailureNamesStage ==
  (pc = "exited" /\ callErr.op # "none") =>
    /\ exitCode # 0
    /\ exitMsg.prefix # ""

\* the text sub occurs in text, piece for piece
Contains(text, sub) ==
  \E i \in 0..(Len(text) - Len(sub)) : SubSeq(text, i + 1, i + Len(sub)) = sub

\* the value holds a double quote that no backslash precedes
HasUnescapedQuote(p) ==
  \E i \in 1..Len(p) : p[i] = "\"" /\ (i = 1 \/ p[i - 1] # "\\")

\* the path parameters a rendering substitutes
PathsUsed(stage, in) ==
  CASE stage = "install-agent-config" -> {in.lp, in.dp}
    [] stage = "start-workload" ->
         IF in.windows THEN {in.gp, in.lp} ELSE {in.gp, in.lp, in.dp}
    [] stage = "verification" -> {in.dp}

CallsOf(op) == { i \in 1..Len(calls) : calls[i].op = op }

\* C12 as stated: on POSIX the controller is Verified only if the read-back
\* of the debug log, made after the sleep that follows the launch, returned
\* a non-empty log.
C12_VerifiedOnlyIfLogNonEmpty ==
  (state = "Verified" /\ ~IsWindows(vm.Platform)) =>
    /\ slept = 1
    /\ Len(calls) = 6
    /\ calls[5].op = "launch" /\ calls[5].result = "ok"
    /\ calls[6].op = "verification" /\ calls[6].result = "ok"
    /\ calls[6].output # ""

\* C12 amended: on POSIX the controller is Verified only if the read-back
\* ("cat" of the debug log), issued after the one sleep that follows a
\* successful launch, returned without error; what it printed is not looked
\* at.  The read-back is never issued before the sleep.
C12_VerifiedOnlyIfReadBackOk ==
  /\ \A i \in CallsOf("verification") :
       slept = 1 /\ i = 6 /\ calls[5].op = "launch" /\ calls[5].result = "ok"
  /\ (state = "Verified" /\ ~IsWindows(vm.Platform)) =>
       /\ slept = 1
       /\ Len(calls) = 6
       /\ calls[6].op = "verification" /\ calls[6].result = "ok"
       /\ calls[6].script = <<"cat ">> \o debugLogPath

C12_Witness ==
  /\ state = "Verified"
  /\ ~IsWindows(vm.Platform)
  /\ Len(calls) = 6
  /\ calls[6].output = ""
  /\ exitCode = 0

\* C13: with LOG_RATE=1000 and LOG_SIZE_IN_BYTES=1000 the launch script
\* issued on a POSIX platform contains --log-rate="1000" and
\* --log-size-in-bytes="1000", redirects output to the debug log path and
\* ends by putting the process in the background.
C13_PosixStartScript ==
  \A i \in CallsOf("launch") :
    (~IsWindows(vm.Platform) /\ logRate = "1000" /\ logSizeInBytes = "1000")
      => LET t == calls[i].script
         IN /\ Contains(t, <<"--log-rate=\"", "1000", "\"">>)
            /\ Contains(t, <<"--log-size-in-bytes=\"", "1000", "\"">>)
            /\ Contains(t, <<"&> ">> \o debugLogPath \o <<" &">>)
            /\ SubSeq(t, Len(t) - 1, Len(t)) = <<" &", "\n">>
            /\ t[1] = "nohup python3 "

C13_Witness ==
  /\ CallsOf("launch") # {}
  /\ ~IsWindows(vm.Platform)
  /\ logRate = "1000"
  /\ logSizeInBytes = "1000"
  /\ calls[5].result = "ok"

\* the remote calls: every call but the provisioning request
IsRemoteCall(c) == c.op # "provision"

\* C14: a step that issues a call is taken while the controller is neither
\* Verified nor Failed, and a remote call only with the VM that a successful
\* provisioning returned.
C14_CallsOnlyBetweenProvisionAndTerminal ==
  [][calls' # calls /\ Len(calls') > Len(calls) =>
       /\ state \notin {"Verified", "Failed"}
       /\ IsRemoteCall(calls'[Len(calls')]) =>
            /\ vm.created
            /\ calls[1].op = "provision"
            /\ calls[1].result = "ok"]_vars

C14_Witness ==
  /\ state = "Failed"
  /\ Len(calls) = 3
  /\ calls[3].result = "failed"
  /\ vm.created
  /\ pc = "exited"

\* C15: no stage is issued twice in a run, and a call that failed is the
\* only call of its stage.
C15_NoRetry ==
  \A i, j \in 1..Len(calls) : calls[i].op = calls[j].op => i = j

C15_Witness ==
  /\ Len(calls) = 5
  /\ calls[5].op = "launch"
  /\ calls[5].result = "failed"
  /\ pc = "exited"

\* C16: on Windows no read-back is ever issued and a run that succeeds has
\* the launch as its last call; on POSIX a run that returns after a
\* successful launch has issued exactly one read-back, after one sleep and
\* after the launch.
C16_VerificationByPlatform ==
  /\ IsWindows(vm.Platform) =>
       /\ CallsOf("verification") = {}
       /\ slept = 0
       /\ exitCode = 0 => /\ Len(calls) = 5
                          /\ calls[5].op = "launch"
                          /\ calls[5].result = "ok"
  /\ (/\ ~IsWindows(vm.Platform)
      /\ Returned
      /\ \E i \in CallsOf("launch") : calls[i].result = "ok") =>
       /\ Cardinality(CallsOf("verification")) = 1
       /\ slept = 1
       /\ \A i \in CallsOf("verification") : i - 1 \in CallsOf("launch")

C16_Witness ==
  /\ IsWindows(vm.Platform)
  /\ exitCode = 0
  /\ calls[5].op = "launch"
  /\ state = "Verified"

\* C17: every run ends: the process exits with the controller Verified or
\* Failed, and it never sleeps more than once on the way.
C17_Terminates ==
  /\ [](slept <= 1)
  /\ <>(pc = "exited" /\ state \in {"Verified", "Failed"})

C17_Witness ==
  /\ pc = "exited"
  /\ slept = 1
  /\ state = "Failed"
  /\ calls[6].result = "context deadline exceeded"

\* the platform choice a call shows
IsWindowsInstall(c) == c.fn = "gce.RunRemotely" /\ c.script = installPython
IsPosixInstall(c) == c.fn = "agents.InstallPackages"
IsWindowsLaunch(c) ==
  /\ Contains(c.script, <<" ", "--log-size-in-bytes=">>)
  /\ c.script[1] # "nohup python3 "
IsPosixLaunch(c) == c.script[1] = "nohup python3 "

\* C18: the Python install, the launch command and the skipping of the
\* read-back of one run all follow one classification of the VM's platform:
\* all three are the Windows choice or all three are the POSIX choice.
C18_OnePlatformChoice ==
  LET w == IsWindows(vm.Platform)
  IN /\ \A i \in CallsOf("interpreter install") :
          IF w THEN IsWindowsInstall(calls[i]) /\ ~IsPosixInstall(calls[i])
          ELSE IsPosixInstall(calls[i]) /\ ~IsWindowsInstall(calls[i])
     /\ \A i \in CallsOf("launch") :
          IF w THEN IsWindowsLaunch(calls[i]) /\ ~IsPosixLaunch(calls[i])
          ELSE IsPosixLaunch(calls[i]) /\ ~IsWindowsLaunch(calls[i])
     /\ CallsOf("verification") # {} => ~w
     /\ retLine = 208 => (CallsOf("verification") = {} <=> w)

C18_Witness ==
  /\ IsWindows(vm.Platform)
  /\ retLine = 208
  /\ IsWindowsInstall(calls[3])
  /\ IsWindowsLaunch(calls[5])
  /\ CallsOf("verification") = {}
  /\ pc = "L82"

\* C19: once key cleanup has run, cancel() has run before it, mainErr has
\* decided its result and no call is in flight; no call is issued in any
\* later step.
C19_CleanupLast ==
  /\ [](cleanupCount >= 1 =>
          /\ cancelCount = 1
          /\ ctx \in {"cancelled", "expired"}
          /\ retLine # 0
          /\ ~inflight
          /\ Returned)
  /\ [][cleanupCount >= 1 => calls' = calls]_vars

C19_Witness ==
  /\ cleanupCount = 1
  /\ cancelCount = 1
  /\ ctx = "cancelled"
  /\ retLine = 208
  /\ pc = "L82"

\* position of the first piece of text equal to a, 0 if there is none
IndexOf(text, a) ==
  IF \E i \in 1..Len(text) : text[i] = a
  THEN CHOOSE i \in 1..Len(text) :
         text[i] = a /\ \A j \in 1..(i - 1) : text[j] # a
  ELSE 0

\* the pieces of text after the first a and before the next b
Between(text, a, b) ==
  LET i == IndexOf(text, a)
      rest == SubSeq(text, i + 1, Len(text))
      j == IndexOf(rest, b)
  IN IF i = 0 \/ j = 0 THEN <<"?">> ELSE SubSeq(rest, 1, j - 1)

\* C20: on POSIX the path of the configuration's second receiver, the
\* redirect target of the launch script and the file of the read-back are
\* one path; the path of the first receiver is the --file-path of the
\* launch script; the path the generator is uploaded to is the path the
\* launch script runs.
C20_PathsAgree ==
  ~IsWindows(vm.Platform) =>
    /\ \A l \in CallsOf("launch") :
         /\ \A a \in CallsOf("agent install") :
              /\ Between(calls[a].script, ConfigMid, ConfigTail)
                   = Between(calls[l].script, "&> ", " &")
              /\ Between(calls[a].script, ConfigHead, ConfigMid)
                   = Between(calls[l].script, "--file-path=\"", "\"")
         /\ \A u \in CallsOf("upload") :
              calls[u].path
                = Between(calls[l].script, "nohup python3 ", " \\\n  ")
    /\ \A v \in CallsOf("verification") :
         /\ calls[v].script[1] = "cat "
         /\ \A a \in CallsOf("agent install") :
              Tail(calls[v].script)
                = Between(calls[a].script, ConfigMid, ConfigTail)
         /\ \A l \in CallsOf("launch") :
              Tail(calls[v].script) = Between(calls[l].script, "&> ", " &")

C20_Witness ==
  /\ ~IsWindows(vm.Platform)
  /\ Len(calls) = 6
  /\ calls[6].result = "ok"
  /\ calls[6].output = "debug log text"
  /\ Tail(calls[6].script) = debugLogPath
====
